---- MODULE Spec2Model ----
(***************************************************************************)
(* A model of alluka/_types.py: the descriptors of an injected parameter   *)
(* (InjectedDescriptor, InjectedType, InjectedCallback) and how a          *)
(* descriptor is resolved to a value against a context.                    *)
(*                                                                         *)
(* One descriptor is constructed, then resolved any number of times        *)
(* against either of two contexts whose type registries were fixed         *)
(* beforehand.  The outcome of the latest call of every entry point on     *)
(* every context is kept, with the lookups the context received.           *)
(***************************************************************************)
EXTENDS Integers, Sequences, FiniteSets, TLC

\* Longest candidate sequence (InjectedType.types) that is constructed.
MaxTypes == 3

\* abc.UNDEFINED: the sentinel of "no value", and Python's None.
UNDEFINED == "UNDEFINED"

None == "None"

\* The types a registry may implement, and the values it may hold for them
\* (None is a value like any other).
Types == {"A", "B"}

Values == {"v1", "v2", None}

\* What InjectedType.repr_type may be: the annotation the candidates came from.
ReprTypes == {"A | B", "Optional[A]"}

\* What may be passed as InjectedType's `default`.
DefaultArgs == {"d", None, UNDEFINED}

\* The two contexts a descriptor is resolved against.
Contexts == {"ctx1", "ctx2"}

\* The entry points of resolution.
Modes == {"resolve", "resolve_async"}

VARIABLES
    descriptor,         \* the constructed object, cls = "none" before construction
    call,               \* the constructor call that was made, and what it raised
    type_dependencies,  \* per context: type -> registered value or UNDEFINED
    results,            \* per (context, entry point): outcome of the latest call
    lookups             \* per context: get_type_dependency calls of the latest
                        \* InjectedType.resolve, in the order received

vars == <<descriptor, call, type_dependencies, results, lookups>>

----------------------------------------------------------------------------
(* Outcomes of a call: a returned value or a raised error. *)

NotRun == [kind |-> "none"]

Return(v) == [kind |-> "return", value |-> v]

Raise(err, msg, dep) ==
    [kind |-> "raise", error |-> err, message |-> msg, dependency_type |-> dep]

NoDescriptor == [cls |-> "none"]

NoCall == [op |-> "none"]

\* All candidate sequences of length 1..MaxTypes.
TypeSeqs == UNION {[1..n -> Types] : n \in 1..MaxTypes}

----------------------------------------------------------------------------
(* The collaborators _types.py calls and does not define: the context's    *)
(* type lookup, the callbacks a user may declare and what the signature    *)
(* introspection finds in them.                                            *)

\* InjectedTypes: enum.auto() numbers the members from 1.
CALLBACK == 1

TYPE == 2

\* ctx.get_type_dependency(cls): the registered value, UNDEFINED if absent.
get_type_dependency(ctx, cls) ==
    IF cls \in DOMAIN type_dependencies[ctx]
    THEN type_dependencies[ctx][cls]
    ELSE UNDEFINED

\* The callbacks that may be declared.
Callbacks ==
    {"cb_const", "cb_coro", "cb_needs_A", "cb_outer", "cb_deep", "cb_undef",
     "cb_coro_needs_B"}

\* Whether a callback is a coroutine function (can only run suspending).
is_coroutine_function(cb) == cb \in {"cb_coro", "cb_coro_needs_B"}

\* The injected parameters of a callback, as InjectedTuples in declaration
\* order.
parameters(cb) ==
    CASE cb = "cb_needs_A" ->
           << <<TYPE, [cls |-> "InjectedType", repr_type |-> "A",
                       types |-> <<"A">>, default |-> UNDEFINED]>> >>
      [] cb = "cb_coro_needs_B" ->
           << <<TYPE, [cls |-> "InjectedType", repr_type |-> "B",
                       types |-> <<"B">>, default |-> UNDEFINED]>> >>
      [] cb = "cb_outer" ->
           << <<CALLBACK, [cls |-> "InjectedCallback", callback |-> "cb_coro"]>> >>
      [] cb = "cb_deep" ->
           << <<TYPE, [cls |-> "InjectedType", repr_type |-> "Optional[A]",
                       types |-> <<"A">>, default |-> None]>>,
              <<CALLBACK, [cls |-> "InjectedCallback", callback |-> "cb_outer"]>> >>
      [] OTHER -> << >>

\* What a callback returns when called with its injected values.
callback_result(cb, kwargs) ==
    CASE cb = "cb_const" -> "r1"
      [] cb = "cb_coro" -> "r2"
      [] cb = "cb_undef" -> UNDEFINED
      [] cb = "cb_deep" -> kwargs[2]
      [] OTHER -> kwargs[1]

----------------------------------------------------------------------------
(* InjectedType.resolve *)

RECURSIVE Mut_resolve_loop_last(_, _, _, _)
\* A faulty variant: the loop keeps going after a defined result and returns the last.
Mut_resolve_loop_last(self, ctx, i, seen) ==
    IF i > Len(self.types)
    THEN [found |-> FALSE, result |-> UNDEFINED, lookups |-> seen]
    ELSE LET cls == self.types[i]
             result == get_type_dependency(ctx, cls)
             rest == Mut_resolve_loop_last(self, ctx, i + 1, Append(seen, cls))
         IN  IF result # UNDEFINED /\ ~rest.found
             THEN [found |-> TRUE, result |-> result, lookups |-> rest.lookups]
             ELSE rest

RECURSIVE resolve_loop(_, _, _, _)
\* for cls in self.types: the first lookup that is not UNDEFINED is returned.
\* `seen` is the lookups made so far.
resolve_loop(self, ctx, i, seen) ==
    IF i > Len(self.types)
    THEN [found |-> FALSE, result |-> UNDEFINED, lookups |-> seen]
    ELSE LET cls == self.types[i]
             result == get_type_dependency(ctx, cls)
         IN  IF result # UNDEFINED
             THEN [found |-> TRUE, result |-> result, lookups |-> Append(seen, cls)]
             ELSE resolve_loop(self, ctx, i + 1, Append(seen, cls))

\* The error raised when nothing resolves.
MissingDependencyError(self) ==
    Raise("MissingDependencyError",
          <<"Couldn't resolve injected type(s) ", self.repr_type,
            " to actual value">>,
          self.repr_type)

\* A faulty variant: the default is returned without the test against UNDEFINED.
Mut_resolve_no_default_test(self, ctx) ==
    LET loop == resolve_loop(self, ctx, 1, << >>)
    IN  [outcome |-> IF loop.found THEN Return(loop.result)
                     ELSE Return(self.default),
         lookups |-> loop.lookups]

\* A faulty variant: a None default is taken for no default.
Mut_resolve_none_default(self, ctx) ==
    LET loop == resolve_loop(self, ctx, 1, << >>)
    IN  [outcome |-> IF loop.found THEN Return(loop.result)
                     ELSE IF self.default \notin {UNDEFINED, None}
                          THEN Return(self.default)
                          ELSE MissingDependencyError(self),
         lookups |-> loop.lookups]

\* A faulty variant: the error carries the first candidate, not repr_type.
Mut_resolve_wrong_payload(self, ctx) ==
    LET loop == resolve_loop(self, ctx, 1, << >>)
    IN  [outcome |-> IF loop.found THEN Return(loop.result)
                     ELSE IF self.default # UNDEFINED
                          THEN Return(self.default)
                          ELSE Raise("MissingDependencyError",
                                     <<"Couldn't resolve injected type(s) ",
                                       self.types[1], " to actual value">>,
                                     self.types[1]),
         lookups |-> loop.lookups]

\* A faulty variant: the literal repr_type is looked up before the candidates.
Mut_resolve_repr_first(self, ctx) ==
    LET first == get_type_dependency(ctx, self.repr_type)
        loop == resolve_loop(self, ctx, 1, <<self.repr_type>>)
    IN  [outcome |-> IF first # UNDEFINED THEN Return(first)
                     ELSE IF loop.found THEN Return(loop.result)
                     ELSE IF self.default # UNDEFINED
                          THEN Return(self.default)
                          ELSE MissingDependencyError(self),
         lookups |-> IF first # UNDEFINED THEN <<self.repr_type>>
                     ELSE loop.lookups]

\* InjectedType.resolve(ctx): the outcome, and the lookups it made.
InjectedType_resolve(self, ctx) ==
    LET loop == resolve_loop(self, ctx, 1, << >>)
    IN  [outcome |-> IF loop.found THEN Return(loop.result)
                     ELSE IF self.default # UNDEFINED
                          THEN Return(self.default)
                          ELSE MissingDependencyError(self),
         lookups |-> loop.lookups]

----------------------------------------------------------------------------
(* InjectedCallback.resolve and resolve_async, and the client's execution  *)
(* of a callback they delegate to.                                         *)

RECURSIVE InjectedCallback_resolve(_, _)
RECURSIVE InjectedCallback_resolve_async(_, _)
RECURSIVE execute_with_ctx(_, _)
RECURSIVE execute_with_ctx_async(_, _)
RECURSIVE resolve_parameters(_, _, _, _, _)

\* The injected values of a callback's parameters from the i-th on, resolved
\* in declaration order, each one completely before the next; the first
\* error ends the resolution and is passed on as it is.
resolve_parameters(suspending, ctx, params, i, kwargs) ==
    IF i > Len(params)
    THEN Return(kwargs)
    ELSE LET kind == params[i][1]
             injected == params[i][2]
             r == IF kind = TYPE
                  THEN InjectedType_resolve(injected, ctx).outcome
                  ELSE IF suspending
                       THEN InjectedCallback_resolve_async(injected, ctx)
                       ELSE InjectedCallback_resolve(injected, ctx)
         IN  IF r.kind = "raise"
             THEN r
             ELSE resolve_parameters(suspending, ctx, params, i + 1,
                                     Append(kwargs, r.value))

\* client.execute_with_ctx(ctx, callback): blocking execution.
execute_with_ctx(ctx, callback) ==
    IF is_coroutine_function(callback)
    THEN Raise("AsyncOnlyError", << >>, "")
    ELSE LET kwargs == resolve_parameters(FALSE, ctx, parameters(callback), 1, << >>)
         IN  IF kwargs.kind = "raise"
             THEN kwargs
             ELSE Return(callback_result(callback, kwargs.value))

\* client.execute_with_ctx_async(ctx, callback), awaited: suspending execution.
execute_with_ctx_async(ctx, callback) ==
    LET kwargs == resolve_parameters(TRUE, ctx, parameters(callback), 1, << >>)
    IN  IF kwargs.kind = "raise"
        THEN kwargs
        ELSE Return(callback_result(callback, kwargs.value))

\* A faulty variant: the blocking entry point delegates to the suspending execution.
Mut_resolve_runs_async(self, ctx) == execute_with_ctx_async(ctx, self.callback)

\* A faulty variant: the callback itself is returned, not what it returns.
Mut_resolve_returns_callback(self, ctx) == Return(self.callback)

\* InjectedCallback.resolve(ctx)
InjectedCallback_resolve(self, ctx) == execute_with_ctx(ctx, self.callback)

\* InjectedCallback.resolve_async(ctx), awaited
InjectedCallback_resolve_async(self, ctx) ==
    execute_with_ctx_async(ctx, self.callback)

----------------------------------------------------------------------------
(* Construction *)

\* A faulty variant: the check that rejects `callback` and `type` given together is
\* missing.
Mut_init_accepts_both(callback, type) ==
    IF callback = None /\ type = None
    THEN Raise("ValueError", <<"Must specify one of 'callback' or 'type'">>, "")
    ELSE Return([cls |-> "InjectedDescriptor", callback |-> callback, type |-> type])

\* InjectedDescriptor.__init__(callback=, type=): the descriptor, or the
\* error raised (the messages' backquotes are written as quotes).
InjectedDescriptor_init(callback, type) ==
    IF callback = None /\ type = None
    THEN Raise("ValueError", <<"Must specify one of 'callback' or 'type'">>, "")
    ELSE IF callback # None /\ type # None
    THEN Raise("ValueError",
               <<"Only one of 'callback' or 'type' can be specified">>, "")
    ELSE Return([cls |-> "InjectedDescriptor", callback |-> callback, type |-> type])

\* InjectedType.__init__(repr_type, types, default=UNDEFINED); kwargs is
\* the set of keyword arguments given, as <<name, value>> pairs.
InjectedType_init(repr_type, types, kwargs) ==
    [cls |-> "InjectedType",
     default |-> IF \E kw \in kwargs : kw[1] = "default"
                 THEN (CHOOSE kw \in kwargs : kw[1] = "default")[2]
                 ELSE UNDEFINED,
     repr_type |-> repr_type,
     types |-> types]

\* InjectedCallback.__init__(callback)
InjectedCallback_init(callback) ==
    [cls |-> "InjectedCallback", callback |-> callback]

----------------------------------------------------------------------------
(* The state machine *)

Registries == [Types -> Values \cup {UNDEFINED}]

Init ==
    /\ descriptor = NoDescriptor
    /\ call = NoCall
    /\ type_dependencies \in [Contexts -> Registries]
    /\ results = [s \in Contexts \X Modes |-> NotRun]
    /\ lookups = [c \in Contexts |-> << >>]

\* A declaration: InjectedDescriptor(callback=..., type=...).
NewInjectedDescriptor(callback, type) ==
    /\ call.op = "none"
    /\ LET r == InjectedDescriptor_init(callback, type)
       IN  /\ call' = [op |-> "InjectedDescriptor", callback |-> callback,
                       type |-> type, outcome |-> r]
           /\ descriptor' = IF r.kind = "return" THEN r.value ELSE descriptor
    /\ UNCHANGED <<type_dependencies, results, lookups>>

\* InjectedType(repr_type, types) or InjectedType(repr_type, types, default=d).
NewInjectedType(repr_type, types, kwargs) ==
    /\ call.op = "none"
    /\ call' = [op |-> "InjectedType", repr_type |-> repr_type,
                types |-> types, kwargs |-> kwargs]
    /\ descriptor' = InjectedType_init(repr_type, types, kwargs)
    /\ UNCHANGED <<type_dependencies, results, lookups>>

\* InjectedCallback(callback).
NewInjectedCallback(callback) ==
    /\ call.op = "none"
    /\ call' = [op |-> "InjectedCallback", callback |-> callback]
    /\ descriptor' = InjectedCallback_init(callback)
    /\ UNCHANGED <<type_dependencies, results, lookups>>

\* A faulty variant: the candidates are consumed as they are tried.
Mut_ResolveType_consumes(ctx) ==
    /\ descriptor.cls = "InjectedType"
    /\ LET r == InjectedType_resolve(descriptor, ctx)
       IN  /\ results' = [results EXCEPT ![<<ctx, "resolve">>] = r.outcome]
           /\ lookups' = [lookups EXCEPT ![ctx] = r.lookups]
           /\ descriptor' =
                [descriptor EXCEPT
                   !.types = IF Len(r.lookups) < Len(descriptor.types)
                             THEN SubSeq(descriptor.types, Len(r.lookups) + 1,
                                         Len(descriptor.types))
                             ELSE descriptor.types]
    /\ UNCHANGED <<call, type_dependencies>>

\* descriptor.resolve(ctx) on an InjectedType.
ResolveType(ctx) ==
    /\ descriptor.cls = "InjectedType"
    /\ LET r == InjectedType_resolve(descriptor, ctx)
       IN  /\ results' = [results EXCEPT ![<<ctx, "resolve">>] = r.outcome]
           /\ lookups' = [lookups EXCEPT ![ctx] = r.lookups]
    /\ UNCHANGED <<descriptor, call, type_dependencies>>

\* descriptor.resolve(ctx) on an InjectedCallback.
ResolveCallback(ctx) ==
    /\ descriptor.cls = "InjectedCallback"
    /\ results' = [results EXCEPT
                     ![<<ctx, "resolve">>] = InjectedCallback_resolve(descriptor, ctx)]
    /\ UNCHANGED <<descriptor, call, type_dependencies, lookups>>

\* await descriptor.resolve_async(ctx) on an InjectedCallback.
ResolveCallbackAsync(ctx) ==
    /\ descriptor.cls = "InjectedCallback"
    /\ results' = [results EXCEPT
                     ![<<ctx, "resolve_async">>] =
                        InjectedCallback_resolve_async(descriptor, ctx)]
    /\ UNCHANGED <<descriptor, call, type_dependencies, lookups>>

\* The keyword arguments InjectedType may be constructed with.
TypeKwargs == {{}} \cup {{<<"default", d>>} : d \in DefaultArgs}

Next ==
    \/ \E callback \in Callbacks \cup {None}, type \in Types \cup {None} :
         NewInjectedDescriptor(callback, type)
    \/ \E repr_type \in ReprTypes, types \in TypeSeqs, kwargs \in TypeKwargs :
         NewInjectedType(repr_type, types, kwargs)
    \/ \E callback \in Callbacks : NewInjectedCallback(callback)
    \/ \E ctx \in Contexts : ResolveType(ctx)
    \/ \E ctx \in Contexts : ResolveCallback(ctx)
    \/ \E ctx \in Contexts : ResolveCallbackAsync(ctx)

Spec == Init /\ [][Next]_vars

----------------------------------------------------------------------------
(* Vocabulary of the properties *)

\* The outcome of the latest descriptor.resolve(ctx) / resolve_async(ctx).
Blocking(ctx) == results[<<ctx, "resolve">>]

Suspending(ctx) == results[<<ctx, "resolve_async">>]

TypeResolved(ctx) ==
    descriptor.cls = "InjectedType" /\ Blocking(ctx).kind # "none"

\* Candidate type t is implemented by the context's registry.
Defined(ctx, t) == type_dependencies[ctx][t] # UNDEFINED

\* The positions of a candidate sequence whose type is implemented.
DefinedAt(ctx, types) == {i \in 1..Len(types) : Defined(ctx, types[i])}

\* The least element of a non-empty set of positions.
Least(S) == CHOOSE i \in S : \A j \in S : i <= j

\* A type-variant descriptor can be satisfied: by a candidate or the default.
Resolvable(ctx, injected) ==
    DefinedAt(ctx, injected.types) # {} \/ injected.default # UNDEFINED

\* The value a satisfiable type-variant descriptor stands for.
TypeValue(ctx, injected) ==
    IF DefinedAt(ctx, injected.types) # {}
    THEN type_dependencies[ctx][injected.types[Least(DefinedAt(ctx, injected.types))]]
    ELSE injected.default

RECURSIVE NoUnresolvedDependencies(_, _)
\* No type dependency anywhere in the callback's resolution tree is
\* unsatisfiable.
NoUnresolvedDependencies(ctx, cb) ==
    \A i \in 1..Len(parameters(cb)) :
        LET p == parameters(cb)[i]
        IN  IF p[1] = TYPE
            THEN Resolvable(ctx, p[2])
            ELSE NoUnresolvedDependencies(ctx, p[2].callback)

RECURSIVE RequiresSuspension(_)
\* The callback, or a callback nested in its resolution tree, is a coroutine
\* function.
RequiresSuspension(cb) ==
    \/ is_coroutine_function(cb)
    \/ \E i \in 1..Len(parameters(cb)) :
          /\ parameters(cb)[i][1] = CALLBACK
          /\ RequiresSuspension(parameters(cb)[i][2].callback)

RECURSIVE CallbackValue(_, _)
\* What the callback returns when every dependency in its tree is satisfied.
CallbackValue(ctx, cb) ==
    callback_result(cb,
        [i \in 1..Len(parameters(cb)) |->
            IF parameters(cb)[i][1] = TYPE
            THEN TypeValue(ctx, parameters(cb)[i][2])
            ELSE CallbackValue(ctx, parameters(cb)[i][2].callback)])

----------------------------------------------------------------------------
(* C1 *)

ExactlyOneSupplied == (call.callback = None) # (call.type = None)

----------------------------------------------------------------------------
(* C2 *)

\* C2: when some candidate is implemented, InjectedType.resolve returns the
\* value registered for the first implemented candidate in declaration
\* order, whatever the default is; a registered None is a value.
C2_FirstDefinedWins ==
    \A ctx \in Contexts :
        (TypeResolved(ctx) /\ DefinedAt(ctx, descriptor.types) # {}) =>
            Blocking(ctx) =
                Return(type_dependencies[ctx]
                         [descriptor.types[Least(DefinedAt(ctx, descriptor.types))]])

\* The first candidate is not implemented and is skipped; the second is
\* registered as None, which is returned although a default was given.
C2_Witness ==
    /\ TypeResolved("ctx1")
    /\ Len(descriptor.types) >= 2
    /\ ~Defined("ctx1", descriptor.types[1])
    /\ type_dependencies["ctx1"][descriptor.types[2]] = None
    /\ descriptor.default = "d"
    /\ Blocking("ctx1") = Return(None)

----------------------------------------------------------------------------
(* C3 *)

\* C3: when no candidate is implemented and the default is not UNDEFINED
\* (None included), InjectedType.resolve returns the default and raises
\* nothing.
C3_DefaultReturned ==
    \A ctx \in Contexts :
        (/\ TypeResolved(ctx)
         /\ DefinedAt(ctx, descriptor.types) = {}
         /\ descriptor.default # UNDEFINED) =>
            Blocking(ctx) = Return(descriptor.default)

\* Nothing is implemented, the default is None, and None was returned.
C3_Witness ==
    /\ TypeResolved("ctx1")
    /\ DefinedAt("ctx1", descriptor.types) = {}
    /\ descriptor.default = None
    /\ Blocking("ctx1") = Return(None)

----------------------------------------------------------------------------
(* C4 *)

\* C4: when no candidate is implemented and there is no default (omitted,
\* or given as UNDEFINED), InjectedType.resolve raises
\* MissingDependencyError, whose message and dependency_type carry
\* repr_type; no value is returned.
C4_MissingDependency ==
    \A ctx \in Contexts :
        (/\ TypeResolved(ctx)
         /\ DefinedAt(ctx, descriptor.types) = {}
         /\ call.kwargs \in {{}, {<<"default", UNDEFINED>>}}) =>
            /\ Blocking(ctx).kind = "raise"
            /\ Blocking(ctx).error = "MissingDependencyError"
            /\ Blocking(ctx).dependency_type = call.repr_type
            /\ \E i \in 1..Len(Blocking(ctx).message) :
                  Blocking(ctx).message[i] = call.repr_type

\* The default was given as UNDEFINED, nothing is implemented, and the
\* resolution raised.
C4_Witness ==
    /\ TypeResolved("ctx1")
    /\ DefinedAt("ctx1", descriptor.types) = {}
    /\ call.kwargs = {<<"default", UNDEFINED>>}
    /\ Blocking("ctx1").kind = "raise"

----------------------------------------------------------------------------
(* C5 *)

CallbackDescriptor == descriptor.cls = "InjectedCallback"

\* Both entry points return the callback's result on ctx.
BothReturnResult(ctx) ==
    /\ Blocking(ctx).kind # "none" =>
          Blocking(ctx) = Return(CallbackValue(ctx, descriptor.callback))
    /\ Suspending(ctx).kind # "none" =>
          Suspending(ctx) = Return(CallbackValue(ctx, descriptor.callback))
    /\ (Blocking(ctx).kind # "none" /\ Suspending(ctx).kind # "none") =>
          Blocking(ctx) = Suspending(ctx)

\* C5 as stated: for a callback with no unresolved dependencies, resolve
\* and resolve_async both return the callback's result, and the same value
\* on the same context.
C5_AsStated ==
    \A ctx \in Contexts :
        (CallbackDescriptor /\ NoUnresolvedDependencies(ctx, descriptor.callback))
            => BothReturnResult(ctx)

\* C5, amended: for a callback with no unresolved dependencies of which
\* neither it nor a callback nested in its resolution tree requires
\* suspension, resolve and resolve_async both return the callback's result,
\* and the same value on the same context.
C5_SameResultBothModes ==
    \A ctx \in Contexts :
        (/\ CallbackDescriptor
         /\ NoUnresolvedDependencies(ctx, descriptor.callback)
         /\ ~RequiresSuspension(descriptor.callback))
            => BothReturnResult(ctx)

\* A callback with a type dependency the registry implements was resolved
\* through both entry points, and both returned the injected value.
C5_Witness ==
    /\ CallbackDescriptor
    /\ descriptor.callback = "cb_needs_A"
    /\ Defined("ctx1", "A")
    /\ Blocking("ctx1") = Return(type_dependencies["ctx1"]["A"])
    /\ Suspending("ctx1") = Blocking("ctx1")

----------------------------------------------------------------------------
(* C6 *)

\* Blocking resolution fails with AsyncOnlyError, suspending resolution
\* returns.
BlockingRefusedSuspendingReturns(ctx) ==
    /\ Blocking(ctx).kind # "none" =>
          /\ Blocking(ctx).kind = "raise"
          /\ Blocking(ctx).error = "AsyncOnlyError"
    /\ Suspending(ctx).kind # "none" => Suspending(ctx).kind = "return"

\* C6 as stated: when the callback or a callback nested in its resolution
\* tree requires suspension, resolve raises AsyncOnlyError and
\* resolve_async on the same context succeeds.
C6_AsStated ==
    \A ctx \in Contexts :
        (CallbackDescriptor /\ RequiresSuspension(descriptor.callback))
            => BlockingRefusedSuspendingReturns(ctx)

\* C6, amended: when the callback or a callback nested in its resolution
\* tree requires suspension and no type dependency of the tree is
\* unresolved, resolve raises AsyncOnlyError and resolve_async on the same
\* context succeeds.
C6_AsyncOnly ==
    \A ctx \in Contexts :
        (/\ CallbackDescriptor
         /\ RequiresSuspension(descriptor.callback)
         /\ NoUnresolvedDependencies(ctx, descriptor.callback))
            => BlockingRefusedSuspendingReturns(ctx)

\* The coroutine function is two levels down the resolution tree: resolve
\* raised AsyncOnlyError, resolve_async returned the nested result.
C6_Witness ==
    /\ CallbackDescriptor
    /\ descriptor.callback = "cb_deep"
    /\ Blocking("ctx1").kind = "raise"
    /\ Blocking("ctx1").error = "AsyncOnlyError"
    /\ Suspending("ctx1") = Return("r2")

----------------------------------------------------------------------------
(* C7 *)

\* Some call returned the UNDEFINED sentinel.
ReturnedUndefined(ctx, mode) == results[<<ctx, mode>>] = Return(UNDEFINED)

\* C7 as stated: no resolution returns UNDEFINED unless it was explicitly
\* set as the descriptor's default.
C7_AsStated ==
    \A ctx \in Contexts, mode \in Modes :
        ReturnedUndefined(ctx, mode) =>
            /\ descriptor.cls = "InjectedType"
            /\ call.kwargs = {<<"default", UNDEFINED>>}

\* C7, amended: InjectedType.resolve never returns UNDEFINED, not even when
\* UNDEFINED was given as the default (it raises then); InjectedCallback's
\* resolve and resolve_async return UNDEFINED only when the callback itself
\* returns it.
C7_UndefinedNotFromResolution ==
    \A ctx \in Contexts, mode \in Modes :
        ReturnedUndefined(ctx, mode) =>
            /\ CallbackDescriptor
            /\ NoUnresolvedDependencies(ctx, descriptor.callback)
            /\ CallbackValue(ctx, descriptor.callback) = UNDEFINED

\* UNDEFINED was given as the default, nothing is implemented, and the
\* resolution raised instead of returning it.
C7_Witness ==
    /\ TypeResolved("ctx2")
    /\ call.kwargs = {<<"default", UNDEFINED>>}
    /\ DefinedAt("ctx2", descriptor.types) = {}
    /\ Blocking("ctx2").kind = "raise"
    /\ Blocking("ctx2").error = "MissingDependencyError"

----------------------------------------------------------------------------
(* C8 *)

\* The same entry point, run against two contexts with the same bindings,
\* had the same outcome.
SameOutcome ==
    \A mode \in Modes :
        (/\ type_dependencies["ctx1"] = type_dependencies["ctx2"]
         /\ results[<<"ctx1", mode>>].kind # "none"
         /\ results[<<"ctx2", mode>>].kind # "none")
            => results[<<"ctx1", mode>>] = results[<<"ctx2", mode>>]

\* C8: no step changes a descriptor once it is constructed, and resolving it
\* against two contexts with identical bindings gives identical outcomes
\* (the same value or the same error).
C8_DescriptorImmutable ==
    /\ [][descriptor.cls # "none" => descriptor' = descriptor]_vars
    /\ []SameOutcome

\* A type-variant descriptor was resolved against both contexts, whose
\* bindings are the same, after skipping its first candidate.
C8_Witness ==
    /\ TypeResolved("ctx1") /\ TypeResolved("ctx2")
    /\ type_dependencies["ctx1"] = type_dependencies["ctx2"]
    /\ Len(lookups["ctx1"]) = 2
    /\ Blocking("ctx1") = Blocking("ctx2")
    /\ descriptor.types = call.types

----------------------------------------------------------------------------
(* C9 *)

\* C9: InjectedDescriptor() with neither callback nor type yields a
\* descriptor with both fields None (a type dependency to be inferred from
\* the annotation).
C9_NeitherYieldsDescriptor ==
    (/\ call.op = "InjectedDescriptor"
     /\ call.callback = None
     /\ call.type = None) =>
        /\ call.outcome.kind = "return"
        /\ descriptor.cls = "InjectedDescriptor"
        /\ descriptor.callback = None
        /\ descriptor.type = None

----------------------------------------------------------------------------
(* C10 *)

\* C10: the lookups of one InjectedType.resolve are a prefix of `types` in
\* declaration order, which ends at the first implemented candidate and is
\* all of `types` when none is implemented: nothing is looked up twice, out
\* of order, after the first implemented candidate or outside `types`, and
\* a default is returned or an error raised only after every candidate was
\* looked up.
C10_LookupsArePrefix ==
    \A ctx \in Contexts :
        TypeResolved(ctx) =>
            LET n == Len(lookups[ctx])
                types == descriptor.types
            IN  /\ n >= 1 /\ n <= Len(types)
                /\ \A i \in 1..n : lookups[ctx][i] = types[i]
                /\ \A i \in 1..(n - 1) : ~Defined(ctx, types[i])
                /\ n < Len(types) => Defined(ctx, types[n])
                /\ Defined(ctx, types[n]) =>
                      Blocking(ctx) = Return(type_dependencies[ctx][types[n]])
                /\ ~Defined(ctx, types[n]) =>
                      Blocking(ctx) \in {Return(descriptor.default),
                                         MissingDependencyError(descriptor)}

\* Three candidates, the second implemented: two lookups were made and the
\* third candidate was never looked up.
C10_Witness ==
    /\ TypeResolved("ctx1")
    /\ Len(descriptor.types) = 3
    /\ ~Defined("ctx1", descriptor.types[1])
    /\ Defined("ctx1", descriptor.types[2])
    /\ lookups["ctx1"] = SubSeq(descriptor.types, 1, 2)

====
